---- MODULE Spec2Model ----
(***************************************************************************)
(* The usePhaseLooper hook (src/src/hooks/usePhaseLooper.ts) as a state    *)
(* machine: the React state, the refs, the platform objects the refs       *)
(* point at (capture streams, recorders with their queued events, audio    *)
(* nodes), and the suspended async continuations of enable and of the      *)
(* recorder's onstop handler.                                              *)
(*                                                                         *)
(* JavaScript runs every handler to its next await without interleaving,   *)
(* so one action is one synchronous section: an intent called by the       *)
(* presentation layer, a recorder event, or the resumption of a            *)
(* continuation after the promise it awaits settles.                       *)
(***************************************************************************)
EXTENDS Integers, Sequences, FiniteSets, Bags

\* ---------------------------------------------------------------- bounds
\* enable calls that get past the guards of enable, over a whole behaviour.
MaxEnables == 2
\* recorder.start() calls, over a whole behaviour.
MaxRecordings == 2

\* ------------------------------------------------------------- constants
\* null, for every ref
Null == 0
\* the AudioContext of audioCtxRef; a closed one is never reachable again
Ctx == 1

\* the n-th enable call that acquires a stream gets stream n and recorder n
StreamIds == 1 .. MaxEnables
RecorderIds == 1 .. MaxEnables
\* the size of a data chunk: only "size > 0" is ever tested (empty or not)
ChunkSizes == {0, 1}
\* two playback units of the old graph and two of the new one
UnitIds == 1 .. 4
\* the gain stage of the old graph and of the new one
GainIds == 1 .. 2

StatusEmpty == ""
StatusUnsupported == "Web Audio or MediaRecorder not supported in this browser."
StatusRecording == "Recording your phrase"
StatusProcessing == "Processing recording"
StatusCaptured == "Captured phrase. Ready to start phase loop."
StatusDecodeError == "Error decoding audio buffer."
StatusMicEnabled == "Mic enabled. Click Record and speak your phrase."
StatusMicError == "Error accessing microphone. Check permissions."
StatusPlaying == "Phase loop playing."

VARIABLES
  \* the platform
  supported,           \* AudioContext, getUserMedia and MediaRecorder all exist
  liveStreams,         \* capture streams whose tracks have not been stopped
  recorderState,       \* recorder -> "none" | "inactive" | "recording"
  events,              \* recorder -> its queued start / stop events, in order
  startedUnits,        \* playback units started and still connected
  connectedGains,      \* gain stages still connected to the destination
  \* the hook
  state,               \* useState: the PhaseLooperState
  snap,                \* the state of the last render, which enable closes over
  audioCtxRef, streamRef, recorderRef, chunksRef, phraseBufferRef,
  source1Ref, source2Ref, gainRef, ignoreNextOnStopRef,
  \* suspended continuations
  enableAtResume,      \* enable calls awaiting audioCtx.resume()
  enableAtGum,         \* enable calls awaiting getUserMedia()
  onstopPending,       \* bag of onstop continuations [pc, size]
  enableCalls,         \* enable calls that got past the guards so far
  acquired,            \* streams getUserMedia has handed out so far
  startCalls,          \* recorder.start() calls so far
  mounted,             \* the component using the hook has not been unmounted
  \* history
  sinceReset           \* reset has run and no intent was issued since

platformVars == <<supported, liveStreams, recorderState, events, startedUnits,
                  connectedGains>>
refVars == <<audioCtxRef, streamRef, recorderRef, chunksRef, phraseBufferRef,
             source1Ref, source2Ref, gainRef, ignoreNextOnStopRef>>
graphVars == <<source1Ref, source2Ref, gainRef, startedUnits, connectedGains>>
contVars == <<enableAtResume, enableAtGum, onstopPending>>
countVars == <<enableCalls, acquired, startCalls>>
vars == <<platformVars, state, snap, refVars, contVars, countVars, mounted,
          sinceReset>>

\* ------------------------------------------------------------ the state
getInitialState ==
  [isSupported |-> supported, isEnabling |-> FALSE, isEnabled |-> FALSE,
   isRecording |-> FALSE, hasPhrase |-> FALSE, isPhasePlaying |-> FALSE,
   status |-> StatusEmpty]

\* setStatus: setState((prev) => ({ ...prev, status }))
setStatus(s, status) == [s EXCEPT !.status = status]

\* what the memoised enable callback reads (its useCallback dependencies)
Rendered(s) ==
  [isSupported |-> s.isSupported, isEnabled |-> s.isEnabled,
   isEnabling |-> s.isEnabling]

Init ==
  /\ supported \in BOOLEAN
  /\ liveStreams = {}
  /\ recorderState = [r \in RecorderIds |-> "none"]
  /\ events = [r \in RecorderIds |-> <<>>]
  /\ startedUnits = {}
  /\ connectedGains = {}
  /\ state = getInitialState
  /\ snap = Rendered(getInitialState)
  /\ audioCtxRef = Null
  /\ streamRef = Null
  /\ recorderRef = Null
  /\ chunksRef = <<>>
  /\ phraseBufferRef = Null
  /\ source1Ref = Null
  /\ source2Ref = Null
  /\ gainRef = Null
  /\ ignoreNextOnStopRef = FALSE
  /\ enableAtResume = 0
  /\ enableAtGum = 0
  /\ onstopPending = EmptyBag
  /\ mounted = TRUE
  /\ sinceReset = FALSE
  /\ enableCalls = 0
  /\ acquired = 0
  /\ startCalls = 0

\* setState: React applies the update while the component is mounted and
\* drops it once the component is unmounted.
SetState(s) == state' = IF mounted THEN s ELSE state

\* An intent of the presentation layer other than reset runs: the layer
\* exists as long as the component is mounted.
Intent == mounted /\ sinceReset' = FALSE /\ UNCHANGED mounted

\* A platform callback or a resumed continuation runs.
Callback == UNCHANGED <<sinceReset, mounted>>

\* React re-renders: the callbacks of the next render close over the state.
Render ==
  /\ mounted
  /\ snap # Rendered(state)
  /\ snap' = Rendered(state)
  /\ UNCHANGED <<platformVars, state, refVars, contVars, countVars, mounted,
                 sinceReset>>

\* ----------------------------------------------------------------- enable
\* a mutant of notSupported: the capability check is skipped
notSupportedSkipped(s) == FALSE

\* the first guard of enable (line 86)
notSupported(s) == ~s.isSupported

\* the second guard of enable (line 90)
alreadyEnabled(s) == s.isEnabled \/ s.isEnabling

\* enable, up to its first await (lines 85-105).  The context's state is the
\* platform's (autoplay policy), so "suspended" is read nondeterministically.
enable ==
  /\ Intent
  /\ IF notSupported(snap)
       THEN /\ state' = setStatus(state, StatusUnsupported)
            /\ UNCHANGED <<audioCtxRef, enableAtResume, enableAtGum, enableCalls>>
       ELSE IF alreadyEnabled(snap)
         THEN UNCHANGED <<state, audioCtxRef, enableAtResume, enableAtGum,
                          enableCalls>>
         ELSE /\ enableCalls < MaxEnables
              /\ enableCalls' = enableCalls + 1
              /\ state' = [state EXCEPT !.isEnabling = TRUE]
              /\ audioCtxRef' = Ctx
              /\ \E suspended \in BOOLEAN :
                   IF suspended
                     THEN /\ enableAtResume' = enableAtResume + 1
                          /\ UNCHANGED enableAtGum
                     ELSE /\ enableAtGum' = enableAtGum + 1
                          /\ UNCHANGED enableAtResume
  /\ UNCHANGED <<platformVars, snap, streamRef, recorderRef, chunksRef,
                 phraseBufferRef, source1Ref, source2Ref, gainRef,
                 ignoreNextOnStopRef, onstopPending, acquired, startCalls>>

\* the catch block of enable (lines 158-162)
enableCatch(s) == setStatus([s EXCEPT !.isEnabling = FALSE], StatusMicError)

\* audioCtx.resume() resolves: enable goes on to getUserMedia (lines 102-105)
resumeResolve ==
  /\ enableAtResume > 0
  /\ Callback
  /\ enableAtResume' = enableAtResume - 1
  /\ enableAtGum' = enableAtGum + 1
  /\ UNCHANGED <<platformVars, state, snap, refVars, onstopPending, countVars>>

\* audioCtx.resume() rejects
resumeReject ==
  /\ enableAtResume > 0
  /\ Callback
  /\ enableAtResume' = enableAtResume - 1
  /\ SetState(enableCatch(state))
  /\ UNCHANGED <<platformVars, snap, refVars, enableAtGum, onstopPending,
                 countVars>>

\* getUserMedia() rejects
getUserMediaReject ==
  /\ enableAtGum > 0
  /\ Callback
  /\ enableAtGum' = enableAtGum - 1
  /\ SetState(enableCatch(state))
  /\ UNCHANGED <<platformVars, snap, refVars, enableAtResume, onstopPending,
                 countVars>>

\* getUserMedia() resolves and the recorder is constructed (lines 105-157)
getUserMediaResolve ==
  /\ enableAtGum > 0
  /\ LET stream == acquired + 1
         recorder == acquired + 1
     IN /\ Callback
        /\ acquired' = stream
        /\ liveStreams' = liveStreams \cup {stream}
        /\ streamRef' = stream
        /\ recorderRef' = recorder
        /\ recorderState' = [recorderState EXCEPT ![recorder] = "inactive"]
  /\ enableAtGum' = enableAtGum - 1
  /\ SetState(setStatus([state EXCEPT !.isEnabled = TRUE, !.isEnabling = FALSE],
                        StatusMicEnabled))
  /\ UNCHANGED <<supported, events, startedUnits, connectedGains, snap,
                 audioCtxRef, chunksRef, phraseBufferRef, source1Ref,
                 source2Ref, gainRef, ignoreNextOnStopRef, enableAtResume,
                 onstopPending, enableCalls, startCalls>>

\* getUserMedia() resolves and new MediaRecorder(stream) throws (lines 105-108)
recorderThrows ==
  /\ enableAtGum > 0
  /\ LET stream == acquired + 1
     IN /\ Callback
        /\ acquired' = stream
        /\ liveStreams' = liveStreams \cup {stream}
        /\ streamRef' = stream
  /\ enableAtGum' = enableAtGum - 1
  /\ SetState(enableCatch(state))
  /\ UNCHANGED <<supported, recorderState, events, startedUnits, connectedGains,
                 snap, audioCtxRef, recorderRef, chunksRef, phraseBufferRef,
                 source1Ref, source2Ref, gainRef, ignoreNextOnStopRef,
                 enableAtResume, onstopPending, enableCalls, startCalls>>

\* ------------------------------------------------------ recording pipeline
RECURSIVE SumSeq(_)
SumSeq(s) == IF s = <<>> THEN 0 ELSE Head(s) + SumSeq(Tail(s))

IsStop(e) == e \in {"stop", "stopByReset", "stopByUnmount"}

\* a mutant of startRecordingNoop: the recorder's state is not tested
startRecordingNoopNullOnly(rec, rs) == rec = Null

\* the guard of startRecording (line 167)
startRecordingNoop(rec, rs) == rec = Null \/ rs[rec] = "recording"

\* the guard of stopRecording (line 173)
stopRecordingNoop(rec, rs) == rec = Null \/ rs[rec] # "recording"

\* startRecording (lines 165-169): recorder.start() makes the recorder
\* "recording" at once and queues its start event.
startRecording ==
  /\ Intent
  /\ IF startRecordingNoop(recorderRef, recorderState)
       THEN UNCHANGED <<recorderState, events, startCalls>>
       ELSE /\ startCalls < MaxRecordings
            /\ startCalls' = startCalls + 1
            /\ recorderState' = [recorderState EXCEPT ![recorderRef] = "recording"]
            /\ events' = [events EXCEPT ![recorderRef] = Append(@, "start")]
  /\ UNCHANGED <<supported, liveStreams, startedUnits, connectedGains, state,
                 snap, refVars, contVars, enableCalls, acquired>>

\* stopRecording (lines 171-175): recorder.stop() makes the recorder
\* "inactive" at once and queues the task that fires dataavailable and stop.
stopRecording ==
  /\ Intent
  /\ IF stopRecordingNoop(recorderRef, recorderState)
       THEN UNCHANGED <<recorderState, events>>
       ELSE /\ recorderState' = [recorderState EXCEPT ![recorderRef] = "inactive"]
            /\ events' = [events EXCEPT ![recorderRef] = Append(@, "stop")]
  /\ UNCHANGED <<supported, liveStreams, startedUnits, connectedGains, state,
                 snap, refVars, contVars, countVars>>

\* The head event of recorder r is delivered.
Deliver(r) ==
  /\ events' = [events EXCEPT ![r] = Tail(@)]
  /\ UNCHANGED recorderState

\* recorder.onstart (lines 117-121)
onstart(r) ==
  /\ events[r] # <<>>
  /\ Head(events[r]) = "start"
  /\ Callback
  /\ Deliver(r)
  /\ chunksRef' = <<>>
  /\ SetState(setStatus([state EXCEPT !.isRecording = TRUE], StatusRecording))
  /\ UNCHANGED <<supported, liveStreams, startedUnits, connectedGains, snap,
                 audioCtxRef, streamRef, recorderRef, phraseBufferRef,
                 source1Ref, source2Ref, gainRef, ignoreNextOnStopRef, contVars,
                 countVars>>

\* recorder.ondataavailable (lines 111-115)
ondataavailable(chunks, size) == IF size > 0 THEN Append(chunks, size) ELSE chunks

\* a mutant of Blob: the blob is built from an empty array
BlobOfNothing(chunks) == 0

\* new Blob(chunksRef.current): the chunks concatenated (line 135)
Blob(chunks) == SumSeq(chunks)

\* The stop task of recorder r: dataavailable, then recorder.onstop up to
\* its first await (lines 123-136).
onstop(r) ==
  /\ events[r] # <<>>
  /\ IsStop(Head(events[r]))
  /\ Callback
  /\ Deliver(r)
  /\ \E size \in ChunkSizes :
       chunksRef' = ondataavailable(chunksRef, size)
  /\ IF ignoreNextOnStopRef
       THEN /\ ignoreNextOnStopRef' = FALSE
            /\ UNCHANGED <<state, onstopPending>>
       ELSE /\ UNCHANGED ignoreNextOnStopRef
            /\ SetState(setStatus([state EXCEPT !.isRecording = FALSE],
                                  StatusProcessing))
            /\ IF audioCtxRef = Null
                 THEN UNCHANGED onstopPending
                 ELSE onstopPending' = onstopPending (+)
                        SetToBag({[pc |-> "blob", size |-> Blob(chunksRef')]})
  /\ UNCHANGED <<supported, liveStreams, startedUnits, connectedGains, snap,
                 audioCtxRef, streamRef, recorderRef, phraseBufferRef,
                 source1Ref, source2Ref, gainRef, enableAtResume, enableAtGum,
                 countVars>>

\* a mutant of decodeCatch: the decode error is swallowed without a status
decodeCatchSilent(s) == s

\* a mutant of decodeCatch: the failed decode is reported as a captured phrase
decodeCatchMarksPhrase(s) ==
  setStatus([s EXCEPT !.hasPhrase = TRUE], StatusDecodeError)

\* the catch block of onstop (lines 146-149)
decodeCatch(s) == setStatus(s, StatusDecodeError)

Suspended(pc) == {c \in BagToSet(onstopPending) : c.pc = pc}

\* blob.arrayBuffer() resolves (lines 136-137): decodeAudioData is called on
\* audioCtxRef.current, which throws a TypeError when reset has cleared it.
arrayBufferResolve(c) ==
  /\ c \in Suspended("blob")
  /\ Callback
  /\ IF audioCtxRef = Null
       THEN /\ onstopPending' = onstopPending (-) SetToBag({c})
            /\ SetState(decodeCatch(state))
       ELSE /\ onstopPending' = (onstopPending (-) SetToBag({c}))
                                  (+) SetToBag({[c EXCEPT !.pc = "decode"]})
            /\ UNCHANGED state
  /\ UNCHANGED <<platformVars, snap, refVars, enableAtResume, enableAtGum,
                 countVars>>

\* decodeAudioData resolves with an AudioBuffer (lines 139-145).  Empty data
\* never decodes; a buffer is named by the size of the data it came from.
decodeResolve(c) ==
  /\ c \in Suspended("decode")
  /\ c.size > 0
  /\ Callback
  /\ onstopPending' = onstopPending (-) SetToBag({c})
  /\ phraseBufferRef' = c.size
  /\ SetState(setStatus([state EXCEPT !.hasPhrase = TRUE], StatusCaptured))
  /\ UNCHANGED <<platformVars, snap, audioCtxRef, streamRef, recorderRef,
                 chunksRef, source1Ref, source2Ref, gainRef,
                 ignoreNextOnStopRef, enableAtResume, enableAtGum, countVars>>

\* decodeAudioData rejects (lines 146-149)
decodeReject(c) ==
  /\ c \in Suspended("decode")
  /\ Callback
  /\ onstopPending' = onstopPending (-) SetToBag({c})
  /\ SetState(decodeCatch(state))
  /\ UNCHANGED <<platformVars, snap, refVars, enableAtResume, enableAtGum,
                 countVars>>

\* ------------------------------------------------------------ phase graph
Graph ==
  [source1Ref |-> source1Ref, source2Ref |-> source2Ref, gainRef |-> gainRef,
   startedUnits |-> startedUnits, connectedGains |-> connectedGains]

SetGraph(g) ==
  /\ source1Ref' = g.source1Ref
  /\ source2Ref' = g.source2Ref
  /\ gainRef' = g.gainRef
  /\ startedUnits' = g.startedUnits
  /\ connectedGains' = g.connectedGains

\* a mutant of stopPhaseGraph: the second playback unit is stopped and
\* disconnected but its ref is not cleared
stopPhaseGraphKeepsSource2(g) ==
  [g EXCEPT !.startedUnits = @ \ {g.source1Ref, g.source2Ref},
            !.connectedGains = @ \ {g.gainRef},
            !.source1Ref = Null, !.gainRef = Null]

\* The refs and nodes stopPhase leaves (lines 178-203).
stopPhaseGraph(g) ==
  LET a == IF g.source1Ref # Null
             THEN [g EXCEPT !.startedUnits = @ \ {g.source1Ref},
                            !.source1Ref = Null]
             ELSE g
      b == IF a.source2Ref # Null
             THEN [a EXCEPT !.startedUnits = @ \ {a.source2Ref},
                            !.source2Ref = Null]
             ELSE a
  IN IF b.gainRef # Null
       THEN [b EXCEPT !.connectedGains = @ \ {b.gainRef}, !.gainRef = Null]
       ELSE b

\* stopPhase (lines 177-206)
stopPhase ==
  /\ Intent
  /\ SetGraph(stopPhaseGraph(Graph))
  /\ state' = [state EXCEPT !.isPhasePlaying = FALSE]
  /\ UNCHANGED <<supported, liveStreams, recorderState, events, snap,
                 audioCtxRef, streamRef, recorderRef, chunksRef,
                 phraseBufferRef, ignoreNextOnStopRef, contVars, countVars>>

\* the first free id
NewId(free) == CHOOSE i \in free : \A j \in free : i <= j

\* a mutant of startPhaseGraph: the new gain stage is not stored in gainRef
startPhaseGraphDropsGain(g, old) ==
  LET units == UnitIds \ (g.startedUnits \cup {old.source1Ref, old.source2Ref})
      s1 == NewId(units)
      s2 == NewId(units \ {s1})
      gn == NewId(GainIds \ (g.connectedGains \cup {old.gainRef}))
  IN [source1Ref |-> s1, source2Ref |-> s2, gainRef |-> Null,
      startedUnits |-> g.startedUnits \cup {s1, s2},
      connectedGains |-> g.connectedGains \cup {gn}]

\* The graph startPhase builds on the torn-down graph g (lines 217-244): new
\* nodes are objects other than the ones the refs held.
startPhaseGraph(g, old) ==
  LET units == UnitIds \ (g.startedUnits \cup {old.source1Ref, old.source2Ref})
      s1 == NewId(units)
      s2 == NewId(units \ {s1})
      gn == NewId(GainIds \ (g.connectedGains \cup {old.gainRef}))
  IN [source1Ref |-> s1, source2Ref |-> s2, gainRef |-> gn,
      startedUnits |-> g.startedUnits \cup {s1, s2},
      connectedGains |-> g.connectedGains \cup {gn}]

\* a mutant of startPhaseTeardown: startPhase does not call stopPhase
startPhaseNoTeardown(g) == g

\* the torn-down graph startPhase builds on: stopPhase() (line 215)
startPhaseTeardown(g) == stopPhaseGraph(g)

\* a mutant of startPhaseNoop: only the context is tested
startPhaseNoopCtxOnly(audioCtx, buffer) == audioCtx = Null

\* the guard of startPhase (line 212)
startPhaseNoop(audioCtx, buffer) == audioCtx = Null \/ buffer = Null

\* startPhase (lines 208-249)
startPhase ==
  /\ Intent
  /\ IF startPhaseNoop(audioCtxRef, phraseBufferRef)
       THEN UNCHANGED <<graphVars, state>>
       ELSE LET g == startPhaseTeardown(Graph)
            IN /\ Cardinality(UnitIds \ (g.startedUnits
                                 \cup {source1Ref, source2Ref})) >= 2
               /\ GainIds \ (g.connectedGains \cup {gainRef}) # {}
               /\ SetGraph(startPhaseGraph(g, Graph))
               /\ state' = setStatus([state EXCEPT !.isPhasePlaying = TRUE],
                                     StatusPlaying)
  /\ UNCHANGED <<supported, liveStreams, recorderState, events, snap,
                 audioCtxRef, streamRef, recorderRef, chunksRef,
                 phraseBufferRef, ignoreNextOnStopRef, contVars, countVars>>

\* ------------------------------------------------------------------ reset
\* a mutant of resetRefs: the stored Phrase is not cleared
resetRefsKeepPhrase ==
  /\ streamRef' = Null
  /\ audioCtxRef' = Null
  /\ recorderRef' = Null
  /\ chunksRef' = <<>>
  /\ UNCHANGED phraseBufferRef
  /\ source1Ref' = Null
  /\ source2Ref' = Null
  /\ gainRef' = Null

\* The refs reset clears in its step 5 (lines 321-326), on top of the
\* stream and context refs of steps 3 and 4 (lines 307, 317).
resetRefs ==
  /\ streamRef' = Null
  /\ audioCtxRef' = Null
  /\ recorderRef' = Null
  /\ chunksRef' = <<>>
  /\ phraseBufferRef' = Null
  /\ source1Ref' = Null
  /\ source2Ref' = Null
  /\ gainRef' = Null

\* reset (lines 285-330)
reset ==
  LET g == stopPhaseGraph(Graph)
      recording == recorderRef # Null /\ recorderState[recorderRef] = "recording"
  IN /\ mounted
     /\ sinceReset' = TRUE
     /\ startedUnits' = g.startedUnits
     /\ connectedGains' = g.connectedGains
     /\ ignoreNextOnStopRef' = (recording \/ ignoreNextOnStopRef)
     /\ events' = IF recording
                    THEN [events EXCEPT ![recorderRef] = Append(@, "stopByReset")]
                    ELSE events
     /\ recorderState' = IF recording
                            THEN [recorderState EXCEPT ![recorderRef] = "inactive"]
                            ELSE recorderState
     /\ liveStreams' = liveStreams \ {streamRef}
     /\ resetRefs
     /\ state' = getInitialState
     /\ UNCHANGED <<supported, snap, contVars, countVars, mounted>>


\* ---------------------------------------------------------------- unmount
\* The cleanup of the unmount effect (lines 261-283): stopPhase(), whose
\* setState React drops as the component is going away; recorder.stop()
\* without the ignore flag; the stream's tracks stopped; the context closed.
unmount ==
  LET recording == recorderRef # Null /\ recorderState[recorderRef] = "recording"
  IN /\ mounted
     /\ mounted' = FALSE
     /\ SetGraph(stopPhaseGraph(Graph))
     /\ events' = IF recording
                    THEN [events EXCEPT ![recorderRef] = Append(@, "stopByUnmount")]
                    ELSE events
     /\ recorderState' = IF recording
                            THEN [recorderState EXCEPT ![recorderRef] = "inactive"]
                            ELSE recorderState
     /\ liveStreams' = liveStreams \ {streamRef}
     /\ streamRef' = Null
     /\ audioCtxRef' = Null
     /\ UNCHANGED <<supported, state, snap, recorderRef, chunksRef,
                    phraseBufferRef, ignoreNextOnStopRef, contVars, countVars,
                    sinceReset>>

\* ================================================================ claims
NoHandle ==
  /\ audioCtxRef = Null
  /\ streamRef = Null
  /\ recorderRef = Null
  /\ chunksRef = <<>>
  /\ phraseBufferRef = Null
  /\ source1Ref = Null
  /\ source2Ref = Null
  /\ gainRef = Null

\* C1: after reset, and until the next intent, the callbacks of the session
\* that reset tore down (stop event, blob read, decode completion) leave
\* hasPhrase false and the stored Phrase absent.
NoStaleWriteAfterReset ==
  sinceReset => (~state.hasPhrase /\ phraseBufferRef = Null)

\* C2: reset can run in every reachable state, and the state right after it
\* is the construction-time snapshot with every stored handle cleared.
ResetRestoresInitial ==
  /\ [](mounted => ENABLED reset)
  /\ [][reset => (/\ state' = getInitialState
                  /\ state'.isSupported = supported
                  /\ NoHandle')]_vars

\* C2 witness: reset has just run on a controller that was recording.
ResetWhileRecordingDone ==
  /\ sinceReset
  /\ ignoreNextOnStopRef
  /\ state = getInitialState
  /\ NoHandle
  /\ \E r \in RecorderIds : events[r] # <<>>

\* C3: at most one capture stream is live, and it is the one streamRef holds
\* (no stream is acquired twice or overwritten without being released).
AtMostOneCaptureSession ==
  /\ Cardinality(liveStreams) <= 1
  /\ liveStreams \subseteq {streamRef}

\* C4: at most one phase graph is live: the started, connected playback
\* units are exactly the ones the refs hold, never more than two, and the
\* only connected gain stage is the one gainRef holds.
AtMostOneLiveGraph ==
  /\ startedUnits = {source1Ref, source2Ref} \ {Null}
  /\ connectedGains = {gainRef} \ {Null}
  /\ Cardinality(startedUnits) <= 2
  /\ Cardinality(connectedGains) <= 1

\* C4 witness: startPhase has run while a graph was playing (units 3 and 4
\* are handed out only while the refs still hold units 1 and 2).
RestartedWhilePlaying ==
  /\ state.isPhasePlaying
  /\ source1Ref = 3
  /\ source2Ref = 4
  /\ startedUnits = {3, 4}

\* C5: on an unsupported platform isEnabled stays false, nothing is ever
\* constructed or left pending, and enable only sets the status message.
UnsupportedNeverAcquires ==
  ~supported =>
    /\ state \in {getInitialState, setStatus(getInitialState, StatusUnsupported)}
    /\ NoHandle
    /\ liveStreams = {} /\ startedUnits = {} /\ connectedGains = {}
    /\ \A r \in RecorderIds : recorderState[r] = "none" /\ events[r] = <<>>
    /\ enableAtResume = 0 /\ enableAtGum = 0 /\ onstopPending = EmptyBag
    /\ enableCalls = 0 /\ acquired = 0 /\ startCalls = 0

\* C5 witness: enable was called on an unsupported platform.
UnsupportedEnableCalled ==
  ~supported /\ state.status = StatusUnsupported

\* C7: stopPhase can run in every state; it leaves isPhasePlaying false and
\* the three graph handles cleared, it changes neither hasPhrase, isEnabled,
\* isRecording nor the stored Phrase, and called in a state a stopPhase left
\* it changes nothing.
StopPhaseIdempotent ==
  /\ [](mounted => ENABLED stopPhase)
  /\ [][stopPhase =>
          /\ ~state'.isPhasePlaying
          /\ source1Ref' = Null /\ source2Ref' = Null /\ gainRef' = Null
          /\ state' = [state EXCEPT !.isPhasePlaying = FALSE]
          /\ phraseBufferRef' = phraseBufferRef
          /\ ((~state.isPhasePlaying /\ source1Ref = Null /\ source2Ref = Null
               /\ gainRef = Null)
              => UNCHANGED <<state, refVars, platformVars, contVars>>)]_vars

\* C7 witness: stopPhase has stopped a playing graph.
StoppedAfterPlaying ==
  /\ state.status = StatusPlaying
  /\ ~state.isPhasePlaying
  /\ state.hasPhrase
  /\ source1Ref = Null /\ source2Ref = Null /\ gainRef = Null
  /\ startedUnits = {}

\* A decode fails: decodeAudioData rejects, or calling it throws.
DecodeFails ==
  \E c \in BagToSet(onstopPending) :
    \/ decodeReject(c)
    \/ (audioCtxRef = Null /\ arrayBufferResolve(c))

\* C8 as stated: after any failed decode hasPhrase is false, the status is
\* the decode-error message, and startPhase is a no-op.
DecodeFailureLeavesNoPhrase ==
  [][(mounted /\ DecodeFails)
       => (/\ ~state'.hasPhrase
           /\ phraseBufferRef' = Null
           /\ state'.status = StatusDecodeError)]_vars

\* C8 amended: a failed decode leaves hasPhrase and the stored Phrase as they
\* were and sets the decode-error status; startPhase is a no-op while no
\* Phrase is stored.
DecodeFailureKeepsPhrase ==
  /\ [][(mounted /\ DecodeFails)
          => (/\ state' = setStatus(state, StatusDecodeError)
              /\ UNCHANGED <<refVars, startedUnits, connectedGains>>)]_vars
  /\ [][(startPhase /\ phraseBufferRef = Null)
          => UNCHANGED <<state, refVars, platformVars>>]_vars

\* C8 witness: the decode of a first recording has failed on a live
\* controller, so that startPhase finds no Phrase.
FirstDecodeFailed ==
  /\ state.status = StatusDecodeError
  /\ ~state.hasPhrase
  /\ phraseBufferRef = Null
  /\ audioCtxRef # Null
  /\ state.isEnabled

\* enable fails at resume, at getUserMedia, or at the recorder's construction
EnableFails == resumeReject \/ getUserMediaReject \/ recorderThrows

\* C9: a failed enable clears isEnabling, leaves isEnabled as it was, sets
\* the status, and leaves stored no stream or recorder of the failed attempt
\* (the stored handles and the live streams are what they were).
EnableFailureLeavesNoSession ==
  [][(mounted /\ EnableFails)
       => (/\ state' = enableCatch(state)
           /\ streamRef' = streamRef
           /\ recorderRef' = recorderRef
           /\ liveStreams' = liveStreams)]_vars

\* The stop event that reset requested is delivered.
ResetStopDelivered ==
  \E r \in RecorderIds :
    events[r] # <<>> /\ Head(events[r]) = "stopByReset" /\ onstop(r)

\* C10: the stop event of the recording that reset stopped only clears the
\* ignore-next-stop flag: no decode starts and the observable state stays.
ResetStopOnlyClearsFlag ==
  [][ResetStopDelivered => (/\ state' = state
                            /\ onstopPending' = onstopPending
                            /\ ~ignoreNextOnStopRef')]_vars

\* C11: isRecording and isPhasePlaying are never both true.
RecordingExcludesPlaying ==
  mounted => ~(state.isRecording /\ state.isPhasePlaying)

\* C12: isEnabling implies not isEnabled.
EnablingExcludesEnabled ==
  mounted => (state.isEnabling => ~state.isEnabled)

\* C13: startPhase called while the audio context or the stored Phrase is
\* absent changes nothing: no node is created, the stored handles and the
\* observable state are left as they are.
StartPhaseNoopWithoutContextOrPhrase ==
  [][(startPhase /\ (audioCtxRef = Null \/ phraseBufferRef = Null))
       => UNCHANGED <<state, refVars, platformVars, contVars>>]_vars

\* C13 witness: an intent has run on a mounted controller that holds a
\* Phrase and no audio context.
PhraseWithoutContext ==
  /\ mounted
  /\ ~sinceReset
  /\ audioCtxRef = Null
  /\ phraseBufferRef # Null
  /\ ~state.isPhasePlaying

\* C14: hasPhrase is true exactly when a Phrase is stored, and a Phrase is
\* stored only by a decode that completed successfully.
PhraseOnlyFromDecode ==
  /\ [](mounted => (state.hasPhrase <=> phraseBufferRef # Null))
  /\ [][(phraseBufferRef' # phraseBufferRef /\ phraseBufferRef' # Null)
          => \E c \in BagToSet(onstopPending) : decodeResolve(c)]_vars

\* C14 witness: a re-recording has failed to decode while the Phrase of an
\* earlier recording is stored.
PhraseKeptAfterFailedDecode ==
  /\ mounted
  /\ state.hasPhrase
  /\ phraseBufferRef # Null
  /\ state.status = StatusDecodeError

\* C15: startRecording changes nothing unless a recorder is stored and idle,
\* and then starts that recorder only; stopRecording changes nothing unless
\* the stored recorder is recording, and then stops that recorder only.
RecordingIntentsGuarded ==
  /\ [][(startRecording
         /\ (recorderRef = Null \/ recorderState[recorderRef] = "recording"))
          => UNCHANGED <<state, refVars, platformVars, contVars>>]_vars
  /\ [][(stopRecording
         /\ (recorderRef = Null \/ recorderState[recorderRef] # "recording"))
          => UNCHANGED <<state, refVars, platformVars, contVars>>]_vars
  /\ [][(startRecording /\ recorderState' # recorderState)
          => (/\ recorderState[recorderRef] = "inactive"
              /\ recorderState' =
                   [recorderState EXCEPT ![recorderRef] = "recording"]
              /\ UNCHANGED <<state, refVars>>)]_vars
  /\ [][(stopRecording /\ recorderState' # recorderState)
          => (/\ recorderState[recorderRef] = "recording"
              /\ recorderState' =
                   [recorderState EXCEPT ![recorderRef] = "inactive"]
              /\ UNCHANGED <<state, refVars>>)]_vars

\* C15 witness: a recording is active and shown, so that a further
\* startRecording finds the recorder recording.
RecordingActive ==
  /\ mounted
  /\ ~sinceReset
  /\ state.isRecording
  /\ recorderRef # Null
  /\ recorderState[recorderRef] = "recording"

\* No continuation is suspended and no recorder event is queued.
Quiescent ==
  /\ enableAtResume = 0 /\ enableAtGum = 0 /\ onstopPending = EmptyBag
  /\ \A r \in RecorderIds : events[r] = <<>>

\* C16: after an unmount, once the pending operations have settled, no
\* capture stream is live or stored, no audio context is stored and no
\* graph is left.
UnmountReleasesEverything ==
  (~mounted /\ Quiescent) =>
    /\ liveStreams = {}
    /\ streamRef = Null
    /\ audioCtxRef = Null
    /\ startedUnits = {} /\ connectedGains = {}

\* C17: after reset, and until the next intent, once the pending callbacks
\* of the earlier session have run the state is still the initial snapshot.
NoStaleCallbackAfterReset ==
  (sinceReset /\ Quiescent) => state = getInitialState

\* C18: whenever isEnabled is true the audio context, the capture stream
\* and the recorder are all stored.
EnabledHasSession ==
  (mounted /\ state.isEnabled) =>
    (audioCtxRef # Null /\ streamRef # Null /\ recorderRef # Null)

\* C19: isPhasePlaying is true exactly when the two playback units and the
\* gain stage are stored, the three handles are stored or absent together,
\* and while playing the audio context and the Phrase are stored.
PlayingIffGraphStored ==
  mounted =>
    /\ state.isPhasePlaying <=>
         (source1Ref # Null /\ source2Ref # Null /\ gainRef # Null)
    /\ (source1Ref = Null) <=> (source2Ref = Null)
    /\ (source1Ref = Null) <=> (gainRef = Null)
    /\ state.isPhasePlaying => (audioCtxRef # Null /\ phraseBufferRef # Null)

\* C19 witness: a graph is playing while a re-recording is being processed.
PlayingWhileProcessing ==
  /\ mounted
  /\ state.isPhasePlaying
  /\ gainRef # Null
  /\ state.status = StatusProcessing

\* The stop event of a recording that stopRecording ended is delivered.
RecordingStopDelivered ==
  \E r \in RecorderIds :
    events[r] # <<>> /\ Head(events[r]) = "stop" /\ onstop(r)

\* C20: the ignore-next-stop flag is never raised when the stop event of a
\* recording ended by stopRecording is delivered, so that this event always
\* sets isRecording to false.
FlagOnlySuppressesResetStop ==
  [][RecordingStopDelivered
       => (~ignoreNextOnStopRef /\ (mounted => ~state'.isRecording))]_vars

\* ========================================================= specification
Next ==
  \/ Render
  \/ enable
  \/ resumeResolve
  \/ resumeReject
  \/ getUserMediaReject
  \/ getUserMediaResolve
  \/ recorderThrows
  \/ startRecording
  \/ stopRecording
  \/ \E r \in RecorderIds : onstart(r)
  \/ \E r \in RecorderIds : onstop(r)
  \/ \E c \in BagToSet(onstopPending) : arrayBufferResolve(c)
  \/ \E c \in BagToSet(onstopPending) : decodeResolve(c)
  \/ \E c \in BagToSet(onstopPending) : decodeReject(c)
  \/ startPhase
  \/ stopPhase
  \/ reset
  \/ unmount

Spec == Init /\ [][Next]_vars

\* ----------------------------------------------------------- happy path
\* The scenario of the spec's section 8 on a supporting platform where
\* resume, microphone access and decoding succeed and every recording
\* delivers data: the presentation layer issues enable, startRecording,
\* stopRecording, startPhase, stopPhase and reset in this order, each once
\* its precondition shows; renders and platform callbacks interleave freely.
\* A captured phrase may be re-recorded before it is played, and after reset
\* the scenario may start over, as far as the bounds allow.
Settled ==
  /\ enableAtResume = 0 /\ enableAtGum = 0 /\ onstopPending = EmptyBag
  /\ \A r \in RecorderIds : events[r] = <<>> /\ recorderState[r] # "recording"

happyEnable ==
  /\ state = getInitialState
  /\ Settled
  /\ enableCalls < MaxEnables
  /\ startCalls < MaxRecordings
  /\ enable

happyStartRecording ==
  /\ state.isEnabled
  /\ state.status \in {StatusMicEnabled, StatusCaptured}
  /\ Settled
  /\ startRecording

happyStopRecording ==
  /\ recorderRef # Null
  /\ recorderState[recorderRef] = "recording"
  /\ stopRecording

happyStartPhase ==
  /\ Settled
  /\ state.hasPhrase
  /\ state.status = StatusCaptured
  /\ startPhase

happyStopPhase == Settled /\ state.isPhasePlaying /\ stopPhase

happyReset ==
  /\ Settled
  /\ state.hasPhrase
  /\ ~state.isPhasePlaying
  /\ state.status = StatusPlaying
  /\ reset

\* the stop task of a recording that captured data
happyOnstop(r) == onstop(r) /\ chunksRef' # chunksRef

HappyNext ==
  \/ Render
  \/ happyEnable
  \/ resumeResolve
  \/ getUserMediaResolve
  \/ happyStartRecording
  \/ happyStopRecording
  \/ \E r \in RecorderIds : onstart(r)
  \/ \E r \in RecorderIds : happyOnstop(r)
  \/ \E c \in BagToSet(onstopPending) : arrayBufferResolve(c)
  \/ \E c \in BagToSet(onstopPending) : decodeResolve(c)
  \/ happyStartPhase
  \/ happyStopPhase
  \/ happyReset

HappyInit == Init /\ supported

\* The event loop runs every pending task and the user goes through with
\* the scenario: a step that stays possible is eventually taken.
HappySpec == HappyInit /\ [][HappyNext]_vars /\ WF_vars(HappyNext)

StartPending == \E r \in RecorderIds : \E i \in DOMAIN events[r] : events[r][i] = "start"
StopPending == \E r \in RecorderIds : \E i \in DOMAIN events[r] : events[r][i] = "stop"

\* C6 witness: the scenario has run to its end.
HappyPathDone ==
  /\ state = getInitialState
  /\ NoHandle
  /\ acquired >= 1
  /\ startCalls >= 1
  /\ liveStreams = {}
  /\ startedUnits = {}
  /\ onstopPending = EmptyBag

\* C6: on the happy path enable resolves with isEnabled true and isRecording
\* false; a started recording eventually shows isRecording; a stopped one
\* eventually shows isRecording false and hasPhrase true; startPhase makes
\* isPhasePlaying true; stopPhase makes it false and keeps hasPhrase; reset
\* restores the initial snapshot; and the scenario runs to that end.
HappyPath ==
  /\ (enableAtResume + enableAtGum > 0) ~> state.isEnabled
  /\ [][getUserMediaResolve => (state'.isEnabled /\ ~state'.isRecording)]_vars
  /\ StartPending ~> state.isRecording
  /\ StopPending ~> (~state.isRecording /\ state.hasPhrase)
  /\ [][happyStartPhase => state'.isPhasePlaying]_vars
  /\ [][happyStopPhase => (~state'.isPhasePlaying /\ state'.hasPhrase)]_vars
  /\ [][happyReset => (state' = getInitialState /\ NoHandle')]_vars
  /\ <>[]HappyPathDone
====
